---- MODULE Spec2Model ----
(***************************************************************************)
(* Model of 1_a_sharp/main.py: the 8-puzzle boards (EFPState), the         *)
(* Manhattan heuristic, the inversion-parity check and the best-first      *)
(* search loop of a_sharp_search, run on a bounded set of start/goal       *)
(* pairs.  One action per code path of one loop iteration.                 *)
(***************************************************************************)
EXTENDS Integers, Sequences, FiniteSets, TLC

VARIABLES input, heap, process_list, visited, pc, outcome, res, iter, run, first

vars == <<input, heap, process_list, visited, pc, outcome, res, iter, run, first>>

-----------------------------------------------------------------------------
(* Bounds of the model *)

\* start boards are taken within MaxScramble slides of each goal board
MaxScramble == 4
\* number of times the search is invoked on the same pair of objects
MaxRuns == 2

-----------------------------------------------------------------------------
(* Python helpers *)

Min(a, b) == IF a < b THEN a ELSE b

Abs(x) == IF x < 0 THEN 0 - x ELSE x

\* s[a:b] of a Python list (0-based, end clamped to the length)
Slice(s, a, b) == SubSeq(s, a + 1, Min(b, Len(s)))

\* Python computes an expression once and binds the name to the value: v is
\* evaluated once and F is applied to the value
Bind(v, F(_)) == CHOOSE y \in {F(x) : x \in {v}} : TRUE

\* None, as the value of end_state / prev_state / res
None == 0

\* object ids of the two boards the caller passes to a_sharp_search
StartId == 1
EndId == 2

-----------------------------------------------------------------------------
(* count_inversions *)

\* variant: only neighbouring elements are compared
count_inversions_adjacent(arr) ==
    Cardinality({i \in 1..(Len(arr) - 1) : arr[i] > arr[i + 1]})

count_inversions(arr) ==
    Cardinality({p \in (1..Len(arr)) \X (1..Len(arr)) :
                    p[1] < p[2] /\ arr[p[1]] > arr[p[2]]})

-----------------------------------------------------------------------------
(* EFPState *)

\* the matrix built by __init__ from a flat sequence
Matrix(sequence) ==
    <<Slice(sequence, 0, 3), Slice(sequence, 3, 6), Slice(sequence, 6, 9)>>

\* EFPState(sequence): end_state None, so update_distance_to_end leaves -1
EFPState(sequence) ==
    [matrix |-> Matrix(sequence), distance_to_end |-> -1,
     end_state |-> None, prev_state |-> None]

to_sequence(m) == m[1] \o m[2] \o m[3]

\* __eq__ / __hash__: equality of the hashes of the flattened tuples; the
\* hashes of the 9! permutation tuples are pairwise distinct, so this is
\* equality of content
BoardEq(m1, m2) == to_sequence(m1) = to_sequence(m2)

\* the cells (i, j) in the order of the two nested range(3) loops
Cells == <<<<0, 0>>, <<0, 1>>, <<0, 2>>,
           <<1, 0>>, <<1, 1>>, <<1, 2>>,
           <<2, 0>>, <<2, 1>>, <<2, 2>>>>

\* matrix[i][j] exists (otherwise Python raises IndexError)
HasCell(m, i, j) == j + 1 <= Len(m[i + 1])

Cell(m, i, j) == m[i + 1][j + 1]

RECURSIVE get_index_from(_, _, _)
get_index_from(m, value, k) ==
    IF k > 9 THEN [err |-> "ValueNotFound", i |-> 0, j |-> 0]
    ELSE LET i == Cells[k][1]
             j == Cells[k][2]
         IN  IF ~HasCell(m, i, j) THEN [err |-> "IndexError", i |-> 0, j |-> 0]
             ELSE IF Cell(m, i, j) = value THEN [err |-> "none", i |-> i, j |-> j]
             ELSE get_index_from(m, value, k + 1)

\* variant: row and column of the result are exchanged
get_index_transposed(m, value) ==
    Bind(get_index_from(m, value, 1), LAMBDA c : [c EXCEPT !.i = c.j, !.j = c.i])

get_index(m, value) == get_index_from(m, value, 1)

\* variant: the blank is measured like a tile
SkipsTile_never(value) == FALSE

\* the test "if value == 0: continue" of distance
SkipsTile(value) == value = 0

RECURSIVE distance_from(_, _, _, _)
distance_from(m, other, k, acc) ==
    IF k > 9 THEN [err |-> "none", val |-> acc]
    ELSE LET i == Cells[k][1]
             j == Cells[k][2]
         IN  IF ~HasCell(m, i, j) THEN [err |-> "IndexError", val |-> 0]
             ELSE IF SkipsTile(Cell(m, i, j)) THEN distance_from(m, other, k + 1, acc)
             ELSE Bind(get_index(other, Cell(m, i, j)),
                       LAMBDA coor :
                           IF coor.err # "none" THEN [err |-> coor.err, val |-> 0]
                           ELSE distance_from(m, other, k + 1,
                                              acc + Abs(coor.j - j) + Abs(coor.i - i)))

distance(m, other) ==
    Bind(<<m, other>>, LAMBDA mo : distance_from(mo[1], mo[2], 1, 0))

\* update_distance_to_end of the node r, the other objects being in h
update_distance_to_end(r, h) ==
    IF r.end_state # None
    THEN Bind(distance(r.matrix, h[r.end_state].matrix),
              LAMBDA d : [err |-> d.err,
                          node |-> [r EXCEPT !.distance_to_end = d.val]])
    ELSE [err |-> "none", node |-> [r EXCEPT !.distance_to_end = -1]]

\* variant: the second cell is not written
swap_lossy(r, coor1, coor2, h) ==
    IF ~HasCell(r.matrix, coor1[1], coor1[2]) \/ ~HasCell(r.matrix, coor2[1], coor2[2])
    THEN [err |-> "IndexError", node |-> r]
    ELSE LET m1 == [r.matrix EXCEPT ![coor1[1] + 1][coor1[2] + 1] =
                                        Cell(r.matrix, coor2[1], coor2[2])]
         IN  Bind([r EXCEPT !.matrix = m1],
                  LAMBDA swapped : update_distance_to_end(swapped, h))

\* swap: exchange two cells, then update_distance_to_end
swap(r, coor1, coor2, h) ==
    IF ~HasCell(r.matrix, coor1[1], coor1[2]) \/ ~HasCell(r.matrix, coor2[1], coor2[2])
    THEN [err |-> "IndexError", node |-> r]
    ELSE LET tmp == Cell(r.matrix, coor1[1], coor1[2])
             m1 == [r.matrix EXCEPT ![coor1[1] + 1][coor1[2] + 1] =
                                        Cell(r.matrix, coor2[1], coor2[2])]
             m2 == [m1 EXCEPT ![coor2[1] + 1][coor2[2] + 1] = tmp]
         IN  Bind([r EXCEPT !.matrix = m2],
                  LAMBDA swapped : update_distance_to_end(swapped, h))

\* variant: the attempt to move down is missing
Directions_noDown == <<"l", "r", "u">>

\* the four keyword arguments of move, in the order extend tries them
Directions == <<"l", "r", "u", "d">>

\* variant: moving right is refused one column early
Blocked_early(dir, zero_index) ==
    CASE dir = "l" -> zero_index[2] = 0
      [] dir = "r" -> zero_index[2] >= 1
      [] dir = "u" -> zero_index[1] = 0
      [] dir = "d" -> zero_index[1] = 2

\* the test that makes move raise InvalidMoveDirection
Blocked(dir, zero_index) ==
    CASE dir = "l" -> zero_index[2] = 0
      [] dir = "r" -> zero_index[2] = 2
      [] dir = "u" -> zero_index[1] = 0
      [] dir = "d" -> zero_index[1] = 2

\* the second coordinate move hands to swap
Target(dir, zero_index) ==
    CASE dir = "l" -> <<zero_index[1], zero_index[2] - 1>>
      [] dir = "r" -> <<zero_index[1], zero_index[2] + 1>>
      [] dir = "u" -> <<zero_index[1] - 1, zero_index[2]>>
      [] dir = "d" -> <<zero_index[1] + 1, zero_index[2]>>

move(r, dir, h) ==
    Bind(get_index(r.matrix, 0),
         LAMBDA zi :
             IF zi.err # "none" THEN [err |-> zi.err, node |-> r]
             ELSE IF Blocked(dir, <<zi.i, zi.j>>)
                  THEN [err |-> "InvalidMoveDirection", node |-> r]
                  ELSE swap(r, <<zi.i, zi.j>>, Target(dir, <<zi.i, zi.j>>), h))

\* variant: the copy does not carry end_state
copy_noEnd(r) ==
    [matrix |-> Matrix(to_sequence(r.matrix)),
     distance_to_end |-> r.distance_to_end,
     end_state |-> None, prev_state |-> None]

\* __copy__: a new object with its own matrix, same end_state and
\* distance_to_end, no prev_state
copy(r) ==
    [matrix |-> Matrix(to_sequence(r.matrix)),
     distance_to_end |-> r.distance_to_end,
     end_state |-> r.end_state, prev_state |-> None]

\* variant: the successor is linked to the predecessor of self
SetPrev_grandparent(st, self, h) == [st EXCEPT !.prev_state = h[self].prev_state]

\* "st.prev_state = self" of extend, self being the object with id self
SetPrev(st, self, h) == [st EXCEPT !.prev_state = self]

\* extend of the object with id self: the moved copies, in the order
\* l, r, u, d; InvalidMoveDirection is swallowed, any other exception
\* leaves extend
RECURSIVE extend_from(_, _, _, _)
extend_from(self, h, k, acc) ==
    IF k > Len(Directions)
    THEN [err |-> "none",
          states |-> [n \in 1..Len(acc) |-> SetPrev(acc[n], self, h)]]
    ELSE Bind(Bind(copy(h[self]), LAMBDA newst : move(newst, Directions[k], h)),
              LAMBDA mv :
                  IF mv.err = "InvalidMoveDirection" THEN extend_from(self, h, k + 1, acc)
                  ELSE IF mv.err # "none" THEN [err |-> mv.err, states |-> <<>>]
                  ELSE extend_from(self, h, k + 1, Append(acc, mv.node)))

\* variant: the loop that sets prev_state is missing
extend_unlinked(self, h) ==
    Bind(extend_from(self, h, 1, <<>>),
         LAMBDA e : [e EXCEPT !.states =
                        [n \in 1..Len(e.states) |->
                            [e.states[n] EXCEPT !.prev_state = None]]])

extend(self, h) == extend_from(self, h, 1, <<>>)

-----------------------------------------------------------------------------
(* list.sort(key=lambda x: x.distance_to_end): a stable sort of object ids *)

SortKey(id, h) == h[id].distance_to_end

MinOf(S) == CHOOSE x \in S : \A y \in S : x <= y

MaxOf(S) == CHOOSE x \in S : \A y \in S : x >= y

\* the entries of s whose key is v, v + 1, ..., max, each group in the
\* order it has in s
RECURSIVE SortBuckets(_, _, _, _)
SortBuckets(s, v, max, h) ==
    IF v > max THEN <<>>
    ELSE SelectSeq(s, LAMBDA id : SortKey(id, h) = v) \o SortBuckets(s, v + 1, max, h)

\* variant: the list is left in the order of insertion
Sort_identity(s, h) == s

Sort(s, h) ==
    IF s = <<>> THEN <<>>
    ELSE Bind({SortKey(s[n], h) : n \in 1..Len(s)},
              LAMBDA keys : Bind(<<MinOf(keys), MaxOf(keys)>>,
                                 LAMBDA mm : SortBuckets(s, mm[1], mm[2], h)))

-----------------------------------------------------------------------------
(* main: the walk "while res is not None: ... res = res.prev_state" *)

\* the matrices printed by main, in the order printed (goal first)
RECURSIVE Walk(_, _, _)
Walk(h, r, fuel) ==
    IF r = None \/ fuel = 0 THEN <<>>
    ELSE <<h[r].matrix>> \o Walk(h, h[r].prev_state, fuel - 1)

Path(h, r) == Walk(h, r, Len(h))

-----------------------------------------------------------------------------
(* The start/goal pairs handed to a_sharp_search *)

\* the two boards of main
MainStart == <<8, 3, 5, 4, 1, 0, 2, 6, 7>>
MainEnd == <<1, 2, 3, 4, 5, 0, 7, 8, 6>>

Goals == {MainEnd, <<1, 2, 3, 4, 5, 6, 7, 8, 0>>}

IsPerm(b) == Len(b) = 9 /\ \A v \in 0..8 : \E p \in 1..9 : b[p] = v

Row(p) == (p - 1) \div 3
Col(p) == (p - 1) % 3

\* positions p, q of the flat board are orthogonally adjacent cells
Adjacent(p, q) == Abs(Row(p) - Row(q)) + Abs(Col(p) - Col(q)) = 1

Exchange(b, p, q) == [b EXCEPT ![p] = b[q], ![q] = b[p]]

\* the boards one legal slide away from b: the blank exchanged with a tile
\* in an orthogonally adjacent cell
Slides(b) ==
    {Exchange(b, p, q) : <<p, q>> \in
        {pq \in (1..Len(b)) \X (1..Len(b)) :
            b[pq[1]] = 0 /\ b[pq[2]] # 0 /\ Adjacent(pq[1], pq[2])}}

\* the boards at most k slides away from the boards of S
RECURSIVE Near(_, _)
Near(S, k) == IF k = 0 THEN S ELSE Near(S \cup UNION {Slides(b) : b \in S}, k - 1)

\* b with two of its non-blank tiles exchanged
TileSwaps(b) ==
    {Exchange(b, pq[1], pq[2]) : pq \in
        {pq \in (1..9) \X (1..9) : pq[1] < pq[2] /\ b[pq[1]] # 0 /\ b[pq[2]] # 0}}

\* pairs of permutations with a longer search
LongPairs ==
    {<<MainStart, MainEnd>>,
     <<<<1, 5, 2, 0, 7, 3, 8, 4, 6>>, MainEnd>>}

\* pairs in which a board is not a permutation of 0..8
InvalidPairs ==
    {<<<<0, 1, 1, 1, 1, 1, 1, 1, 1>>, <<0, 1, 1, 1, 1, 1, 1, 1, 2>>>>,
     <<<<1, 1, 1, 1, 1, 1, 1, 1, 1>>, <<1, 1, 1, 1, 1, 1, 1, 1, 1>>>>,
     <<<<1, 1, 2, 2, 3, 3, 4, 4, 5>>, <<1, 1, 2, 2, 3, 4, 3, 5, 4>>>>,
     <<<<1, 2, 3, 4, 5, 6, 7, 8, 9>>, <<1, 2, 3, 4, 5, 6, 7, 8, 0>>>>,
     <<<<1, 2, 3, 4, 5, 6, 7, 8>>, <<1, 2, 3, 4, 5, 6, 7, 8>>>>,
     <<<<1, 2, 3, 4, 5, 6, 7, 8, 0, 9>>, <<1, 2, 3, 4, 5, 6, 7, 8, 0, 9>>>>}

Inputs ==
    {<<b, g>> : <<b, g>> \in
        {bg \in (Near(Goals, MaxScramble) \cup UNION {TileSwaps(g) : g \in Goals})
                    \X Goals :
            bg[1] \in Near({bg[2]}, MaxScramble) \cup TileSwaps(bg[2])}}
    \cup LongPairs \cup InvalidPairs

-----------------------------------------------------------------------------
(* a_sharp_search *)

\* the caller has built the two boards: start_st and end_st
Init ==
    /\ input \in Inputs
    /\ heap = <<EFPState(input[1]), EFPState(input[2])>>
    /\ process_list = <<>>
    /\ visited = {}
    /\ pc = "begin"
    /\ outcome = "none"
    /\ res = None
    /\ iter = 0
    /\ run = 1
    /\ first = [outcome |-> "none", slides |-> 0]

\* what the statement reached leaves to the caller: an exception ends the call
Raise(exc) ==
    /\ pc' = "done"
    /\ outcome' = exc
    /\ res' = None

\* the test of the solvability check
DifferentParity(start, end) ==
    (count_inversions(to_sequence(start)) - count_inversions(to_sequence(end))) % 2 # 0

\* variant: visited outlives the call
NewVisited_global == visited

\* line 189: visited is a new, empty dict at every call
NewVisited == {}

\* lines 179-190: the heuristic of start, the parity check, the two
\* collections
Begin ==
    /\ pc = "begin"
    /\ \E d \in {distance(heap[StartId].matrix, heap[EndId].matrix)} :
       \E h1 \in {[heap EXCEPT ![StartId].distance_to_end = d.val,
                              ![StartId].end_state = EndId]} :
           IF d.err # "none"
           THEN /\ Raise(d.err)
                /\ UNCHANGED <<heap, process_list, visited>>
           ELSE /\ heap' = h1
                /\ IF DifferentParity(h1[StartId].matrix, h1[EndId].matrix)
                   THEN /\ Raise("Unsolvable")
                        /\ UNCHANGED <<process_list, visited>>
                   ELSE /\ visited' = NewVisited
                        /\ process_list' = <<StartId>>
                        /\ pc' = "loop"
                        /\ UNCHANGED <<outcome, res>>
    /\ UNCHANGED <<input, iter, run, first>>

\* process_list after the sort of line 193
Sorted == Sort(process_list, heap)

\* the flattened tuple __hash__ and __eq__ of the object id work on
Key(id) == to_sequence(heap[id].matrix)

\* variant: the loop ends on an empty list and the function returns None
StepEmpty_returns ==
    /\ pc = "loop"
    /\ process_list = <<>>
    /\ pc' = "done"
    /\ outcome' = "returned"
    /\ res' = None
    /\ iter' = iter + 1
    /\ UNCHANGED <<input, heap, process_list, visited, run, first>>

\* line 194 on an empty list: pop raises IndexError
StepEmpty ==
    /\ pc = "loop"
    /\ process_list = <<>>
    /\ Raise("PopFromEmpty")
    /\ iter' = iter + 1
    /\ UNCHANGED <<input, heap, process_list, visited, run, first>>

\* variant: a visited board is met before it is popped
StepStale_keeps ==
    /\ pc = "loop"
    /\ process_list # <<>>
    /\ \E sorted \in {Sorted} :
          /\ Key(sorted[1]) \in visited
          /\ process_list' = sorted
    /\ UNCHANGED <<input, heap, visited, pc, outcome, res, iter, run, first>>

\* variant: the test of visited is missing and the popped board is expanded
StepStale_expands ==
    /\ pc = "loop"
    /\ process_list # <<>>
    /\ \E sorted \in {Sorted} :
       \E current_state \in {sorted[1]} :
          /\ Key(current_state) \in visited
          /\ \E ext \in {extend(current_state, heap)} :
                /\ heap' = heap \o ext.states
                /\ process_list' = Tail(sorted) \o
                       [n \in 1..Len(ext.states) |-> Len(heap) + n]
    /\ iter' = iter + 1
    /\ UNCHANGED <<input, visited, pc, outcome, res, run, first>>

\* lines 193-196: the popped board was visited before
StepStale ==
    /\ pc = "loop"
    /\ process_list # <<>>
    /\ \E sorted \in {Sorted} :
          /\ Key(sorted[1]) \in visited
          /\ process_list' = Tail(sorted)
    /\ iter' = iter + 1
    /\ UNCHANGED <<input, heap, visited, pc, outcome, res, run, first>>

\* lines 193-200: the popped board is the goal
StepGoal ==
    /\ pc = "loop"
    /\ process_list # <<>>
    /\ \E sorted \in {Sorted} :
       \E current_state \in {sorted[1]} :
          /\ Key(current_state) \notin visited
          /\ BoardEq(heap[current_state].matrix, heap[EndId].matrix)
          /\ visited' = visited \cup {Key(current_state)}
          /\ process_list' = Tail(sorted)
          /\ res' = current_state
    /\ pc' = "done"
    /\ outcome' = "returned"
    /\ iter' = iter + 1
    /\ UNCHANGED <<input, heap, run, first>>

\* variant: the last move is made on self, not on a copy of it
HeapAfterExtend_inplace(h, self, states) ==
    IF states = <<>> THEN h
    ELSE [h EXCEPT ![self].matrix = states[Len(states)].matrix] \o states

\* the objects after extend: every move was made on a fresh copy, so the
\* objects that existed are as they were and the moved copies are new
HeapAfterExtend(h, self, states) == h \o states

\* lines 193-202: the successors of the popped board join the frontier
StepExpand ==
    /\ pc = "loop"
    /\ process_list # <<>>
    /\ \E sorted \in {Sorted} :
       \E current_state \in {sorted[1]} :
          /\ Key(current_state) \notin visited
          /\ ~BoardEq(heap[current_state].matrix, heap[EndId].matrix)
          /\ visited' = visited \cup {Key(current_state)}
          /\ \E ext \in {extend(current_state, heap)} :
                /\ ext.err = "none"
                /\ heap' = HeapAfterExtend(heap, current_state, ext.states)
                /\ process_list' = Tail(sorted) \o
                       [n \in 1..Len(ext.states) |-> Len(heap) + n]
    /\ iter' = iter + 1
    /\ UNCHANGED <<input, pc, outcome, res, run, first>>

\* lines 193-202: extend raises (a lookup of get_index fails)
StepRaise ==
    /\ pc = "loop"
    /\ process_list # <<>>
    /\ \E sorted \in {Sorted} :
       \E current_state \in {sorted[1]} :
          /\ Key(current_state) \notin visited
          /\ ~BoardEq(heap[current_state].matrix, heap[EndId].matrix)
          /\ visited' = visited \cup {Key(current_state)}
          /\ process_list' = Tail(sorted)
          /\ \E ext \in {extend(current_state, heap)} :
                /\ ext.err # "none"
                /\ Raise(ext.err)
    /\ iter' = iter + 1
    /\ UNCHANGED <<input, heap, run, first>>

\* number of slides of the path main prints from the returned node
Slides_of(h, r) == Len(Path(h, r)) - 1

\* the caller invokes a_sharp_search again on the same two objects; the
\* objects created by the previous call are dropped, and process_list and
\* visited keep the values of the finished call until lines 189-190 of the
\* new call bind them again
Again ==
    /\ pc = "done"
    /\ run < MaxRuns
    /\ run' = run + 1
    /\ \E slides \in {IF outcome = "returned" THEN Slides_of(heap, res) ELSE 0} :
          first' = IF run = 1 THEN [outcome |-> outcome, slides |-> slides]
                   ELSE first
    /\ heap' = <<heap[StartId], heap[EndId]>>
    /\ pc' = "begin"
    /\ outcome' = "none"
    /\ res' = None
    /\ iter' = 0
    /\ UNCHANGED <<input, process_list, visited>>

Next == Begin \/ StepEmpty \/ StepStale \/ StepGoal \/ StepExpand \/ StepRaise \/ Again

Spec == Init /\ [][Next]_vars

\* the loop runs on: each call is a single synchronous computation
FairSpec == Spec /\ WF_vars(Next)

TypeOK ==
    /\ pc \in {"begin", "loop", "done"}
    /\ run \in 1..MaxRuns

-----------------------------------------------------------------------------
(* The boards of the call, as the claims speak of them *)

StartBoard == to_sequence(Matrix(input[1]))
GoalBoard == to_sequence(Matrix(input[2]))

\* both boards handed over are permutations of 0..8
ValidInput == IsPerm(input[1]) /\ IsPerm(input[2])

\* the least number of legal slides from a to b, -1 when there is none
\* within cap slides
RECURSIVE BfsDepth(_, _, _, _, _)
BfsDepth(seen, frontier, b, k, cap) ==
    IF b \in frontier THEN k
    ELSE IF k >= cap \/ frontier = {} THEN -1
    ELSE LET nxt == UNION {Slides(x) : x \in frontier} \ seen
         IN  BfsDepth(seen \cup nxt, nxt, b, k + 1, cap)

MinSlides(a, b, cap) == BfsDepth({a}, {a}, b, 0, cap)

\* the boards of the printed path as flat boards, goal first
PathBoards == [n \in 1..Len(Path(heap, res)) |-> to_sequence(Path(heap, res)[n])]

-----------------------------------------------------------------------------
(* C1 *)

\* C1: on permutations of 0..8 the solvability check reports Unsolvable
\* only when the goal is not reachable from start by legal slides, and it
\* passes when start and goal are the same board.
C1_CheckAgreesWithReachability ==
    (ValidInput /\ pc # "begin") =>
        /\ (outcome = "Unsolvable" => MinSlides(StartBoard, GoalBoard, MaxScramble) = -1)
        /\ (StartBoard = GoalBoard => outcome # "Unsolvable")

-----------------------------------------------------------------------------
(* C2 *)

-----------------------------------------------------------------------------
(* C3 *)

\* C3: once the solvability check has passed, the frontier is never empty
\* when the loop extracts its next entry.
C3_FrontierNeverEmpty == pc = "loop" => process_list # <<>>

-----------------------------------------------------------------------------
(* C4 *)

\* C4: the returned path has the least number of slides that lead from start
\* to goal.
C4_PathIsOptimal ==
    (outcome = "returned" /\ ValidInput) =>
        Slides_of(heap, res) = MinSlides(StartBoard, GoalBoard, Slides_of(heap, res))

-----------------------------------------------------------------------------
(* C5 *)

\* number of boards that are permutations of 0..8
NumBoards == 9 * 8 * 7 * 6 * 5 * 4 * 3 * 2

\* C5: every call on two permutations of 0..8 ends; each loop iteration
\* that does not end the call either visits a board that was not visited
\* before or shortens the frontier without visiting anything, and the
\* visited boards are among the 9! permutations.
C5_Terminates ==
    /\ (pc = "begin" /\ ValidInput) ~> (pc = "done")
    /\ [][(pc = "loop" /\ pc' = "loop" /\ ValidInput) =>
            /\ Cardinality(visited') <= NumBoards
            /\ \/ Cardinality(visited') > Cardinality(visited)
               \/ /\ visited' = visited
                  /\ Len(process_list') < Len(process_list)]_vars

C5_Witness == pc = "done" /\ ValidInput /\ outcome = "returned" /\ iter > 100

-----------------------------------------------------------------------------
(* C6 *)

\* C6: when Unsolvable is reported nothing has been extracted, visited or
\* expanded; and a start that is the goal with two non-blank tiles
\* exchanged is reported Unsolvable.
C6_UnsolvableBeforeSearch ==
    /\ outcome = "Unsolvable" =>
          iter = 0 /\ visited = {} /\ process_list = <<>> /\ Len(heap) = 2
    /\ (pc # "begin" /\ ValidInput /\ StartBoard \in TileSwaps(GoalBoard)) =>
          outcome = "Unsolvable"

C6_Witness ==
    outcome = "Unsolvable" /\ ValidInput /\ StartBoard \in TileSwaps(GoalBoard)

-----------------------------------------------------------------------------
(* C7 *)

\* C7: an iteration that finds the frontier empty ends the call with the
\* exception of the pop, handing no node to the caller.
C7_EmptyFrontierFails ==
    [][(pc = "loop" /\ process_list = <<>>) =>
          (pc' = "done" /\ outcome' = "PopFromEmpty" /\ res' = None)]_vars

C7_Witness == pc = "done" /\ outcome = "PopFromEmpty" /\ res = None

-----------------------------------------------------------------------------
(* C8 *)

\* C8: on permutations of 0..8 a returned path has at least
\* distance(start, goal) slides, and the call on the two boards of main
\* passes the check and returns a path.
C8_PathAtLeastHeuristic ==
    /\ (outcome = "returned" /\ ValidInput) =>
          Slides_of(heap, res) >= distance(Matrix(input[1]), Matrix(input[2])).val
    /\ (input = <<MainStart, MainEnd>> /\ pc = "done") => outcome = "returned"

C8_Witness ==
    /\ input = <<MainStart, MainEnd>>
    /\ outcome = "returned"
    /\ distance(Matrix(MainStart), Matrix(MainEnd)).val > 0

-----------------------------------------------------------------------------
(* C9 *)

\* C9: a call on a board that is not a permutation of 0..8 ends before the
\* first loop iteration with a failure that is not Unsolvable (whatever
\* exception stands for InvalidInput).
C9_InvalidInputRejected ==
    (~ValidInput /\ pc # "begin") =>
        /\ pc = "done"
        /\ iter = 0
        /\ outcome \notin {"returned", "Unsolvable"}

-----------------------------------------------------------------------------
(* C10 *)

\* C10: a later call on the same two objects ends as the first call did,
\* and with a path of as many slides when it returns one.
C10_SameOutcomeTwice ==
    (run > 1 /\ pc = "done") =>
        /\ outcome = first.outcome
        /\ outcome = "returned" => Slides_of(heap, res) = first.slides

C10_Witness ==
    run > 1 /\ pc = "done" /\ outcome = "returned" /\ Slides_of(heap, res) >= 10

-----------------------------------------------------------------------------
(* C11 *)

\* the position 1..9 of the blank in the flat board b
BlankPos(b) == CHOOSE p \in 1..Len(b) : b[p] = 0

\* number of cells orthogonally adjacent to position p of the 3x3 grid:
\* 2 in a corner, 3 on an edge, 4 in the centre
NumAdjacent(p) == Cardinality({q \in 1..9 : Adjacent(p, q)})

\* the step about to be taken expands the popped board
Expanding == pc = "loop" /\ pc' = "loop" /\ visited' # visited

\* ids of the objects the step adds to the heap
NewIds == (Len(heap) + 1)..Len(heap')

\* C11: on permutations of 0..8, expanding a board adds exactly 2, 3 or 4
\* successors for a blank in a corner, on an edge or in the centre; the
\* successors are distinct boards, each one legal slide from the expanded
\* board.
C11_SuccessorsByBlankPosition ==
    [][(Expanding /\ ValidInput) =>
          LET b == Key(Sorted[1])
          IN  /\ Cardinality(NewIds) = NumAdjacent(BlankPos(b))
              /\ NumAdjacent(BlankPos(b)) \in {2, 3, 4}
              /\ \A n \in NewIds : to_sequence(heap'[n].matrix) \in Slides(b)
              /\ Cardinality({to_sequence(heap'[n].matrix) : n \in NewIds})
                     = Cardinality(NewIds)]_vars

\* a board with the blank in the centre has been expanded into 4 successors
C11_Witness ==
    /\ ValidInput
    /\ Len(heap) >= 6
    /\ heap[Len(heap)].prev_state # None
    /\ heap[Len(heap) - 3].prev_state = heap[Len(heap)].prev_state
    /\ BlankPos(Key(heap[Len(heap)].prev_state)) = 5

-----------------------------------------------------------------------------
(* C12 *)

\* the position 1..9 of the value v in the flat board b
PosOf(b, v) == CHOOSE p \in 1..Len(b) : b[p] = v

\* the sum, over the tiles v..8, of the Manhattan distance between the
\* positions of the tile in the flat boards a and b
RECURSIVE ManhattanFrom(_, _, _)
ManhattanFrom(a, b, v) ==
    IF v > 8 THEN 0
    ELSE Abs(Row(PosOf(a, v)) - Row(PosOf(b, v)))
             + Abs(Col(PosOf(a, v)) - Col(PosOf(b, v)))
             + ManhattanFrom(a, b, v + 1)

ManhattanSum(a, b) == ManhattanFrom(a, b, 1)

\* boards of the current call: start, goal and the newest board created
SomeBoards == {Matrix(input[1]), Matrix(input[2]), heap[Len(heap)].matrix}

\* C12: on permutations of 0..8, distance(a, b) is the sum over the tiles
\* 1..8 of the Manhattan distances of the tile's two positions, so
\* distance(a, a) = 0 and distance(a, b) = distance(b, a).
C12_DistanceIsSymmetricManhattan ==
    ValidInput =>
        \A a \in SomeBoards : \A b \in SomeBoards :
            /\ distance(a, b).err = "none"
            /\ distance(a, b).val = ManhattanSum(to_sequence(a), to_sequence(b))
            /\ distance(a, b).val = distance(b, a).val
            /\ distance(a, a).val = 0

\* the search has stored the distance of two different boards
C12_Witness ==
    /\ ValidInput
    /\ pc = "loop"
    /\ Len(heap) > 2
    /\ heap[StartId].distance_to_end > 0
    /\ heap[Len(heap)].distance_to_end > 0

-----------------------------------------------------------------------------
(* C13 *)

\* ids of the objects that have been expanded: the predecessors of the
\* objects extend has created
ExpandedIds == {heap[n].prev_state : n \in 3..Len(heap)} \ {None}

\* the frontier entry the next iteration pops is a board already visited
StaleNext == pc = "loop" /\ process_list # <<>> /\ Key(Sorted[1]) \in visited

\* C13: no two expanded objects hold the same board, every expanded board
\* is in visited, and an iteration that pops a board already in visited
\* only removes that entry: nothing is created, visited and the result are
\* untouched and the loop goes on.
C13_ExpandedAtMostOnce ==
    /\ [](/\ Cardinality({Key(id) : id \in ExpandedIds}) = Cardinality(ExpandedIds)
          /\ \A id \in ExpandedIds : Key(id) \in visited)
    /\ [][StaleNext =>
             /\ heap' = heap
             /\ visited' = visited
             /\ process_list' = Tail(Sorted)
             /\ pc' = "loop" /\ outcome' = outcome /\ res' = res]_vars

\* a stale entry has been dropped after several boards were expanded
C13_Witness ==
    /\ pc = "loop"
    /\ Cardinality(ExpandedIds) >= 3
    /\ iter > Cardinality(visited)

-----------------------------------------------------------------------------
(* C14 *)

Range(s) == {s[n] : n \in 1..Len(s)}

\* the entries an iteration takes out of the frontier
Extracted == Range(process_list) \ Range(process_list')

\* C14: every iteration that finds the frontier non-empty takes exactly one
\* entry out of it, and the estimate of that entry is less than or equal to
\* the estimate of every entry the frontier held when the iteration began.
C14_ExtractedIsMinimal ==
    [][(pc = "loop" /\ process_list # <<>>) =>
          /\ Cardinality(Extracted) = 1
          /\ \A x \in Extracted : \A id \in Range(process_list) :
                 heap[x].distance_to_end <= heap[id].distance_to_end]_vars

\* a frontier, left by earlier iterations, whose first entry is not a
\* smallest one and which holds several different estimates
C14_Witness ==
    /\ pc = "loop" /\ iter >= 2 /\ Len(process_list) >= 3
    /\ \E id \in Range(process_list) :
           heap[id].distance_to_end < heap[process_list[1]].distance_to_end

-----------------------------------------------------------------------------
(* C15 *)

\* pairs of positions, first before second, both values nonzero, in
\* descending order
NonBlankInversions(b) ==
    Cardinality({p \in (1..Len(b)) \X (1..Len(b)) :
                    /\ p[1] < p[2]
                    /\ b[p[1]] # 0 /\ b[p[2]] # 0
                    /\ b[p[1]] > b[p[2]]})

\* C15: once the solvability check has run on permutations of 0..8, the
\* counts it compared are the numbers of inversions among the nonzero
\* values of start and of goal; pairs with the blank are not counted.
C15_InversionsSkipBlank ==
    (ValidInput /\ pc # "begin") =>
        /\ count_inversions(to_sequence(heap[StartId].matrix))
               = NonBlankInversions(StartBoard)
        /\ count_inversions(to_sequence(heap[EndId].matrix))
               = NonBlankInversions(GoalBoard)

-----------------------------------------------------------------------------
(* C16 *)

\* the position the blank would take, as row and column offsets
Offset(dir) ==
    CASE dir = "l" -> <<0, -1>>
      [] dir = "r" -> <<0, 1>>
      [] dir = "u" -> <<-1, 0>>
      [] dir = "d" -> <<1, 0>>

TargetRow(b, dir) == Row(BlankPos(b)) + Offset(dir)[1]
TargetCol(b, dir) == Col(BlankPos(b)) + Offset(dir)[2]

OutsideGrid(b, dir) ==
    TargetRow(b, dir) \notin 0..2 \/ TargetCol(b, dir) \notin 0..2

TargetPos(b, dir) == 3 * TargetRow(b, dir) + TargetCol(b, dir) + 1

\* move applied to a copy of the newest object and to a copy of start
MoveOf(id, dir) == move(copy(heap[id]), dir, heap)

\* C16: on the boards of a search between permutations, move in a
\* direction raises InvalidMoveDirection exactly when the cell next to the
\* blank in that direction is outside the grid, and the board is then as it
\* was; otherwise move succeeds and the board is the old one with the blank
\* and the value of that cell exchanged, the other seven cells as they were.
C16_MoveSlidesOrFails ==
    ValidInput =>
        \A id \in {StartId, Len(heap)} : \A dir \in Range(Directions) :
            LET b  == Key(id)
                mv == MoveOf(id, dir)
            IN  IF OutsideGrid(b, dir)
                THEN /\ mv.err = "InvalidMoveDirection"
                     /\ to_sequence(mv.node.matrix) = b
                ELSE /\ mv.err = "none"
                     /\ to_sequence(mv.node.matrix)
                            = Exchange(b, BlankPos(b), TargetPos(b, dir))

\* the search has created boards, the newest with the blank in the centre
\* (four moves succeed) and start with the blank on an edge or corner
C16_Witness ==
    /\ ValidInput /\ pc = "loop" /\ Len(heap) > 2
    /\ BlankPos(Key(Len(heap))) = 5
    /\ BlankPos(Key(StartId)) # 5

-----------------------------------------------------------------------------
(* C17 *)

\* C17: the boards of the caller's start and goal objects are the boards
\* the caller passed, in every state and whatever the outcome, and no step
\* changes the board of an object that exists before and after it: an
\* expansion adds objects and leaves the expanded one as it was.
C17_BoardsAreFrozen ==
    /\ [](/\ heap[StartId].matrix = Matrix(input[1])
          /\ heap[EndId].matrix = Matrix(input[2]))
    /\ [][\A id \in 1..Len(heap) :
              id <= Len(heap') => heap'[id].matrix = heap[id].matrix]_vars

\* several boards have been expanded, start among them, and the search
\* has ended
C17_Witness ==
    /\ pc = "done" /\ outcome = "returned"
    /\ StartId \in ExpandedIds
    /\ Cardinality(ExpandedIds) >= 5

-----------------------------------------------------------------------------
(* C18 *)

\* C18: every object in the frontier carries as distance_to_end the
\* distance of its board to the goal board; the start object has no
\* predecessor, and the objects an expansion creates all enter the
\* frontier with the expanded object, the one taken out by that step, as
\* their predecessor.
C18_FrontierEstimateAndPredecessor ==
    /\ [](pc = "loop" =>
             \A id \in Range(process_list) :
                 /\ distance(heap[id].matrix, heap[EndId].matrix).err = "none"
                 /\ heap[id].distance_to_end
                        = distance(heap[id].matrix, heap[EndId].matrix).val
                 /\ (id = StartId) = (heap[id].prev_state = None))
    /\ [][pc = "loop" =>
             \A n \in NewIds :
                 /\ n \in Range(process_list')
                 /\ heap'[n].prev_state \in Extracted]_vars

\* a frontier of boards created by several expansions, none of them at
\* the distance of start
C18_Witness ==
    /\ pc = "loop" /\ Len(process_list) >= 4
    /\ StartId \notin Range(process_list)
    /\ \A id \in Range(process_list) :
           heap[id].distance_to_end # heap[StartId].distance_to_end

-----------------------------------------------------------------------------
(* C19 *)

\* the object without predecessor that following prev_state from id leads
\* to, or None when fuel links do not get there
RECURSIVE Root(_, _)
Root(id, fuel) ==
    IF heap[id].prev_state = None THEN id
    ELSE IF fuel = 0 THEN None
    ELSE Root(heap[id].prev_state, fuel - 1)

\* C19: the start object has no predecessor and the predecessor of every
\* object a search created is an older object other than the goal object,
\* so the links cannot close a cycle; following them from the newest object
\* and from the returned one ends at start, and the boards on the chain
\* from the returned object are pairwise distinct.
C19_PredecessorsFormTree ==
    /\ heap[StartId].prev_state = None
    /\ \A id \in 3..Len(heap) : heap[id].prev_state \in (1..(id - 1)) \ {EndId}
    /\ Len(heap) > 2 => Root(Len(heap), Len(heap)) = StartId
    /\ outcome = "returned" =>
           /\ Root(res, Len(heap)) = StartId
           /\ Cardinality(Range(PathBoards)) = Len(PathBoards)

\* a returned chain of several links in a search that created many
\* objects off that chain
C19_Witness ==
    /\ outcome = "returned"
    /\ Len(PathBoards) >= 8
    /\ Len(heap) >= 3 * Len(PathBoards)

-----------------------------------------------------------------------------
(* C20 *)

\* each of 0..8 at exactly one of nine positions
EachValueOnce(b) ==
    Len(b) = 9 /\ \A v \in 0..8 : Cardinality({p \in 1..9 : b[p] = v}) = 1

\* C20: when start and goal are permutations of 0..8, the board of every
\* object of the search (start, goal and every object put in the frontier)
\* and every board in visited holds each of 0..8 exactly once, and no
\* lookup fails: the search never ends with the RuntimeError of get_index
\* nor with an IndexError of a cell access.
C20_BoardsStayPermutations ==
    ValidInput =>
        /\ \A id \in 1..Len(heap) : EachValueOnce(Key(id))
        /\ \A b \in visited : EachValueOnce(b)
        /\ pc = "loop" => \A id \in Range(process_list) :
               id \in 1..Len(heap) /\ EachValueOnce(Key(id))
        /\ outcome \notin {"ValueNotFound", "IndexError"}

\* a search between permutations that visited many boards and returned
C20_Witness ==
    /\ ValidInput /\ pc = "done" /\ outcome = "returned"
    /\ Cardinality(visited) >= 50
    /\ Len(heap) > Cardinality(visited)

====
